---- MODULE Spec2Model ----
(***************************************************************************)
(* Model of the two utilities of universe-scales:                          *)
(*   - sort_yaml_items.py : main() and sort_yaml_items()                   *)
(*   - download_images.py and scripts/download_images.py : ImageDownloader *)
(* Spec     is the sorter command, invoked up to MaxRuns times on one file.*)
(* ImgSpec  is one run of the image pipeline (either script).              *)
(***************************************************************************)
EXTENDS Integers, Sequences, FiniteSets, TLC

\* The sorter command (sort_yaml_items.py)
\*   file    : content of the dataset file at file_path
\*   backup  : content of the file at the sibling .backup path
\*   pc      : where main is: "start", "backup", "dispatch", "done"
\*   args    : the parsed flags --backup and --dry-run
\*   ret     : what main returned: "0", "1" or "None"
\*   success : what sort_yaml_items returned: "True" or "False"
\*   orig    : content of the dataset file when the command was invoked
\*   wrote   : how far the write of sort_yaml_items got in this invocation
\*   bk      : outcome of the backup copy in this invocation
\*   runs    : invocations so far
\*   prev    : the file as left by the earlier invocations, whether a
\*             successful sort produced it and whether that sort reordered it
VARIABLES file, backup, pc, args, ret, success, orig, wrote, bk, runs, prev

sortVars == <<file, backup, pc, args, ret, success, orig, wrote, bk, runs, prev>>

\* The image pipeline (ImageDownloader.run)
\*   variant   : "scripts" for scripts/download_images.py, "legacy" for
\*               download_images.py
\*   dataFiles : the dataset files of the data directory, in glob order
\*   images    : names of the files present in the images directory
\*   phase     : where run is: "init", "scan" (find_missing_images loop),
\*               "download" (between files), "infile" (inside
\*               process_yaml_file), "done", "nofiles", "crashed" (an
\*               exception left run)
\*   fi, ii    : current file and item
\*   downloaded_count, skipped_count, total_downloaded, total_skipped :
\*               the counters of process_yaml_file and of run
\*   summary   : the totals printed by the final summary
\*   last      : what was done for the item processed last
\*   tally     : what has happened so far: downloads that succeeded, items
\*               found present, failure lines, and the counts printed by
\*               the per-file summaries
VARIABLES variant, dataFiles, images, phase, fi, ii, downloaded_count,
          skipped_count, total_downloaded, total_skipped, summary, last, tally

imgVars == <<variant, dataFiles, images, phase, fi, ii, downloaded_count,
             skipped_count, total_downloaded, total_skipped, summary, last, tally>>

vars == <<sortVars, imgVars>>

-----------------------------------------------------------------------------
(* Bounds *)

MaxItems == 3

MaxRuns == 2

MaxFiles == 2

MaxImgItems == 2

-----------------------------------------------------------------------------
(* Dataset documents.                                                      *)
(* An item is a mapping with a name and perhaps a 'value', or a scalar.    *)
(* Raw values are kept as written in the file; float() interprets them.    *)

NoValue == "<no value key>"

RawValues == {"-1", "1", "1.0", "nan", "abc"}

ItemShapes ==
  [kind : {"dict"}, value : RawValues \cup {NoValue}]
    \cup {[kind |-> "scalar", value |-> NoValue]}

\* item i of the initial document is named i, so that every item is
\* distinguishable from the others whatever its value
NamedItems(n) ==
  {s \in [1..n -> [name : 1..n, kind : {"dict", "scalar"},
                    value : RawValues \cup {NoValue}]] :
     \A i \in 1..n : /\ s[i].name = i
                     /\ [kind |-> s[i].kind, value |-> s[i].value] \in ItemShapes}

\* what yaml.safe_load can find in the file, as far as the code tells apart
DocKinds ==
  {"absent",          \* no file at file_path
   "badyaml",         \* not parseable as YAML
   "notmap",          \* a document that is not a mapping (also an empty file)
   "noitems",         \* a mapping without an 'items' key
   "null_items",      \* items: null
   "emptymap_items",  \* items: {}
   "str_items",       \* items: a non-empty string
   "list"}            \* items: a sequence

Doc(k, its) == [kind |-> k, items |-> its]

InitialDocs ==
  {Doc(k, <<>>) : k \in DocKinds}
    \cup {Doc("list", s) : s \in UNION {NamedItems(n) : n \in 1..MaxItems}}

EmptyFile == Doc("notmap", <<>>)

StaleBackup == Doc("noitems", <<>>)

NoFile == Doc("absent", <<>>)

-----------------------------------------------------------------------------
(* float() and float comparison.  Numbers are kept in tenths.              *)

FloatErr == [ok |-> FALSE, nan |-> FALSE, num |-> 0]

FloatOf(n) == [ok |-> TRUE, nan |-> FALSE, num |-> n]

FloatNaN == [ok |-> TRUE, nan |-> TRUE, num |-> 0]

\* float(x): ok = FALSE stands for ValueError / TypeError
float(raw) ==
  CASE raw = "-1"  -> FloatOf(-10)
    [] raw = "1"   -> FloatOf(10)
    [] raw = "1.0" -> FloatOf(10)
    [] raw = "0"   -> FloatOf(0)
    [] raw = "nan" -> FloatNaN
    [] OTHER       -> FloatErr

\* a < b on floats: every comparison with NaN is false
ISLT(a, b) == ~a.nan /\ ~b.nan /\ a.num < b.num

\* sort_yaml_items.get_value
get_value(item) ==
  IF item.kind = "dict" /\ item.value # NoValue
    THEN float(item.value)
    ELSE FloatOf(0)

\* the key of the dry-run branch: lambda x: float(x.get('value', 0));
\* a scalar item has no .get (AttributeError)
dry_key(item) ==
  IF item.kind # "dict" THEN FloatErr
  ELSE IF item.value = NoValue THEN float("0")
  ELSE float(item.value)

-----------------------------------------------------------------------------
(* sorted(items, key=...): the keys are computed first, then the list is   *)
(* sorted comparing keys with < only (run detection + binary insertion).   *)

\* the keys sorted() computes before it compares anything
sort_keys(items) == [i \in 1..Len(items) |-> get_value(items[i])]

dry_keys(items) == [i \in 1..Len(items) |-> dry_key(items[i])]

AllKeysOk(keys) == \A i \in 1..Len(keys) : keys[i].ok

Keyed(items, keys) == [i \in 1..Len(items) |-> [key |-> keys[i], item |-> items[i]]]

RECURSIVE DescRun(_, _)
DescRun(s, i) ==
  IF i > Len(s) \/ ~ISLT(s[i].key, s[i-1].key) THEN i - 1 ELSE DescRun(s, i + 1)

RECURSIVE AscRun(_, _)
AscRun(s, i) ==
  IF i > Len(s) \/ ISLT(s[i].key, s[i-1].key) THEN i - 1 ELSE AscRun(s, i + 1)

Reverse(s) == [i \in 1..Len(s) |-> s[Len(s) + 1 - i]]

\* a search that puts the pivot before the elements equal to it
RECURSIVE BinSearch_left(_, _, _, _)
BinSearch_left(s, pivot, l, r) ==
  IF l >= r THEN l
  ELSE LET p == l + ((r - l) \div 2)
       IN IF ~ISLT(s[p + 1].key, pivot.key)
            THEN BinSearch_left(s, pivot, l, p)
            ELSE BinSearch_left(s, pivot, p + 1, r)

\* position (0-based) where pivot goes among s[1..r]
RECURSIVE BinSearch(_, _, _, _)
BinSearch(s, pivot, l, r) ==
  IF l >= r THEN l
  ELSE LET p == l + ((r - l) \div 2)
       IN IF ISLT(pivot.key, s[p + 1].key)
            THEN BinSearch(s, pivot, l, p)
            ELSE BinSearch(s, pivot, p + 1, r)

RECURSIVE binarysort(_, _)
binarysort(s, start) ==
  IF start > Len(s) THEN s
  ELSE LET pivot == s[start]
           pos == BinSearch(s, pivot, 0, start - 1)
           t == SubSeq(s, 1, pos) \o <<pivot>> \o SubSeq(s, pos + 1, start - 1)
                  \o SubSeq(s, start + 1, Len(s))
       IN binarysort(t, start + 1)

RECURSIVE DescRunWeak(_, _)
DescRunWeak(s, i) ==
  IF i > Len(s) \/ ISLT(s[i-1].key, s[i].key) THEN i - 1 ELSE DescRunWeak(s, i + 1)

\* run detection that also takes a run of equal keys for a descending run
listsort_weakdesc(s) ==
  IF Len(s) < 2 THEN s
  ELSE IF ~ISLT(s[1].key, s[2].key)
    THEN LET n == DescRunWeak(s, 3)
         IN binarysort(Reverse(SubSeq(s, 1, n)) \o SubSeq(s, n + 1, Len(s)), n + 1)
    ELSE binarysort(s, AscRun(s, 3) + 1)

listsort(s) ==
  IF Len(s) < 2 THEN s
  ELSE IF ISLT(s[2].key, s[1].key)
    THEN LET n == DescRun(s, 3)
         IN binarysort(Reverse(SubSeq(s, 1, n)) \o SubSeq(s, n + 1, Len(s)), n + 1)
    ELSE binarysort(s, AscRun(s, 3) + 1)

\* the items in the order sorted(items, key=...) returns them
sorted(items, keys) ==
  LET s == listsort(Keyed(items, keys)) IN [i \in 1..Len(s) |-> s[i].item]

-----------------------------------------------------------------------------
(* Image pipeline: data.  Strings that the code edits are sequences of     *)
(* one-character strings.                                                  *)

N_AB == <<"A", " ", "b">>

N_ab == <<"a", "-", "-", "b", "!">>

N_C == <<"C", "!">>

DimL == <<"L">>

WikiSource == "https://en.wikipedia.org/wiki/A_b"

OtherSource == "https://example.org/c"

NoSource == "<no source key>"

None == "None"

\* the items a dataset file can hold; named = FALSE is an item without 'name'
ImgItemKinds ==
  {[named |-> TRUE,  name |-> N_AB, source |-> WikiSource],
   [named |-> TRUE,  name |-> N_ab, source |-> NoSource],
   [named |-> TRUE,  name |-> N_C,  source |-> OtherSource],
   [named |-> FALSE, name |-> <<>>, source |-> WikiSource]}

ImgItemSeqs(n) == UNION {[1..k -> ImgItemKinds] : k \in 0..n}

\* the dataset files of the data directory
\*   ok      : dimension and items
\*   nodim   : no 'dimension' key
\*   noitems : no 'items' key
\*   empty   : an empty document
DataFile(k, its) == [kind |-> k, dimension |-> DimL, items |-> its]

DataFilesWith(budget) ==
  {DataFile(k, <<>>) : k \in {"nodim", "noitems", "empty"}}
    \cup {DataFile("ok", its) : its \in ImgItemSeqs(budget)}

RECURSIVE TotalItems(_)
TotalItems(fs) == IF fs = <<>> THEN 0 ELSE Len(Head(fs).items) + TotalItems(Tail(fs))

\* at most MaxFiles files holding at most MaxImgItems items in all
DataDirs ==
  {fs \in UNION {[1..n -> DataFilesWith(MaxImgItems)] : n \in 0..MaxFiles} :
     TotalItems(fs) <= MaxImgItems}

\* sanitize_filename
WordChars == {"A", "a", "b", "C", "c", "L", "l", "_"}

SepChars == {" ", "-"}

KeepWordSpaceHyphen(c) == c \in WordChars \cup SepChars

IsSep(c) == c \in SepChars

RECURSIVE DropSeps(_)
DropSeps(str) ==
  IF str # <<>> /\ IsSep(Head(str)) THEN DropSeps(Tail(str)) ELSE str

\* re.sub(r'[-\s]+', '_', ...)
RECURSIVE Collapse(_)
Collapse(str) ==
  IF str = <<>> THEN <<>>
  ELSE IF IsSep(Head(str)) THEN <<"_">> \o Collapse(DropSeps(str))
  ELSE <<Head(str)>> \o Collapse(Tail(str))

LowerChar(c) ==
  CASE c = "A" -> "a"
    [] c = "C" -> "c"
    [] c = "L" -> "l"
    [] OTHER   -> c

Lower(str) == [i \in 1..Len(str) |-> LowerChar(str[i])]

\* re.sub(r'[^\w\s-]', '', ...) then the collapse
Safe(str) == Collapse(SelectSeq(str, KeepWordSpaceHyphen))

sanitize_filename(dimension, name) ==
  Lower(Safe(dimension)) \o <<"_">> \o Lower(Safe(name)) \o <<".jpg">>

Filenames == {sanitize_filename(DimL, n) : n \in {N_AB, N_ab, N_C}}

\* what each script's loader makes of a dataset file
\*   scripts/download_images.py: parse_yaml_simple always sets 'items'
\*   download_images.py: yaml.safe_load
Load(v, f) ==
  IF v = "scripts"
    THEN [isNone |-> FALSE,
          hasDimension |-> f.kind \in {"ok", "noitems"},
          hasItems |-> TRUE,
          items |-> f.items]
    ELSE [isNone |-> f.kind = "empty",
          hasDimension |-> f.kind \in {"ok", "noitems"},
          hasItems |-> f.kind \in {"ok", "nodim"},
          items |-> f.items]

\* 'items' not in data or 'dimension' not in data
MissingKey(data) == ~data.hasItems \/ ~data.hasDimension

\* 'source' in item and 'wikipedia.org' in item['source']
HasWikipediaSource(item) == item.source # NoSource /\ item.source = WikiSource

WikiThumb == "https://upload.wikimedia.org/thumb.jpg"

UnsplashSmall == "https://images.unsplash.com/small.jpg"

\* generate_placeholder_image: the URL built from the quoted text
generate_placeholder_image(filename, text) == "https://dummyimage.com/400x300"

resolve_no_short_circuit(v, item, filename, wikiRes, unsplashRes) ==
  LET c1 == IF HasWikipediaSource(item) THEN <<"wikipedia">> ELSE <<>>
      u1 == IF HasWikipediaSource(item) THEN wikiRes ELSE None
  IN IF v # "scripts" THEN [calls |-> c1, url |-> u1]
     ELSE LET u2 == IF unsplashRes # None THEN unsplashRes ELSE u1
          IN [calls |-> c1 \o <<"unsplash">> \o (IF u2 = None THEN <<"placeholder">> ELSE <<>>),
              url |-> IF u2 = None THEN generate_placeholder_image(filename, item.name) ELSE u2]

\* the strategies process_yaml_file calls for an item whose image is
\* absent, in order, and the image_url it ends with; wikiRes and
\* unsplashRes are what the two services answer if asked
resolve(v, item, filename, wikiRes, unsplashRes) ==
  LET c1 == IF HasWikipediaSource(item) THEN <<"wikipedia">> ELSE <<>>
      u1 == IF HasWikipediaSource(item) THEN wikiRes ELSE None
  IN IF v # "scripts" THEN [calls |-> c1, url |-> u1]
     ELSE LET c2 == IF u1 = None THEN c1 \o <<"unsplash">> ELSE c1
              u2 == IF u1 = None THEN unsplashRes ELSE u1
              c3 == IF u2 = None THEN c2 \o <<"placeholder">> ELSE c2
              u3 == IF u2 = None
                      THEN generate_placeholder_image(filename, item.name) ELSE u2
          IN [calls |-> c3, url |-> u3]

\* whether download_image leaves a file at the target path
\*   ok         : status 200, body written
\*   http error : urlopen / get raises or the status is not a success
\*   read error : reading the body fails; scripts/download_images.py has
\*                opened the target file by then, download_images.py has not
DownloadOutcomes == {"ok", "http error", "read error"}

FileAfterDownload(v, outcome) ==
  outcome = "ok" \/ (outcome = "read error" /\ v = "scripts")

NoItemYet ==
  [existed |-> FALSE, item |-> 0, filename |-> <<>>, calls |-> <<>>, url |-> None,
   wikiRes |-> None, unsplashRes |-> None, outcome |-> "none"]

ZeroTally == [downloads |-> 0, skips |-> 0, failed |-> 0, noimage |-> 0,
              fileDownloaded |-> 0, fileSkipped |-> 0]

\* the image pipeline is not running
ImgIdle ==
  /\ variant = "scripts"
  /\ dataFiles = <<>>
  /\ images = {}
  /\ phase = "idle"
  /\ fi = 0
  /\ ii = 0
  /\ downloaded_count = 0
  /\ skipped_count = 0
  /\ total_downloaded = 0
  /\ total_skipped = 0
  /\ summary = [printed |-> FALSE, downloaded |-> 0, skipped |-> 0]
  /\ last = NoItemYet
  /\ tally = ZeroTally

\* the sorter is not running
SortIdle ==
  /\ file = NoFile
  /\ backup = NoFile
  /\ pc = "idle"
  /\ args = [backup |-> FALSE, dry_run |-> FALSE]
  /\ ret = "unset"
  /\ success = "unset"
  /\ orig = NoFile
  /\ wrote = "no"
  /\ bk = "none"
  /\ runs = 0
  /\ prev = [ok |-> FALSE, doc |-> NoFile, reordered |-> FALSE]

-----------------------------------------------------------------------------
(* sort_yaml_items.py                                                      *)

Validate_lenient(doc) ==
  CASE doc.kind = "absent"  -> "no such file"
    [] doc.kind = "badyaml" -> "yaml error"
    [] doc.kind = "notmap"  -> "not a dictionary"
    [] doc.kind = "list" /\ ~AllKeysOk(sort_keys(doc.items)) -> "exception"
    [] OTHER -> "ok"

\* the checks of sort_yaml_items that come before the file is opened for
\* writing: existence, YAML parse, structure, and the keys of sorted()
Validate(doc) ==
  CASE doc.kind = "absent"  -> "no such file"
    [] doc.kind = "badyaml" -> "yaml error"
    [] doc.kind = "notmap"  -> "not a dictionary"
    [] doc.kind = "noitems" -> "no items key"
    [] doc.kind \in {"null_items", "emptymap_items", "str_items"} -> "items is not a list"
    [] ~AllKeysOk(sort_keys(doc.items)) -> "exception"
    [] OTHER -> "ok"

\* the summary loop after the write calls item.get on the first 10 items
SummaryPrints(items) ==
  \A i \in 1..Len(items) : i <= 10 => items[i].kind = "dict"

\* what the dry-run branch of main returns for a document
DryRunReturn(doc) ==
  CASE doc.kind \in {"absent", "badyaml", "notmap"} -> "1"
    [] doc.kind \in {"noitems", "emptymap_items"} -> "None"
    [] doc.kind \in {"null_items", "str_items"} -> "1"
    [] OTHER -> IF AllKeysOk(dry_keys(doc.items)) THEN "None" ELSE "1"

\* sys.exit(main()): None and 0 both end the process with status 0
ExitStatus(r) == IF r = "1" THEN 1 ELSE 0

BackupRequested_never(a) == FALSE

BackupRequested(a) == a.backup

UseDryRun_never(a) == FALSE

UseDryRun(a) == a.dry_run

Init ==
  /\ file \in InitialDocs
  /\ backup \in {NoFile, StaleBackup}
  /\ pc = "start"
  /\ args = [backup |-> FALSE, dry_run |-> FALSE]
  /\ ret = "unset"
  /\ success = "unset"
  /\ orig = file
  /\ wrote = "no"
  /\ bk = "none"
  /\ runs = 0
  /\ prev = [ok |-> FALSE, doc |-> NoFile, reordered |-> FALSE]
  /\ ImgIdle

\* main: parse_args
ParseArgs ==
  /\ pc = "start"
  /\ runs < MaxRuns
  /\ \E b \in BOOLEAN, d \in BOOLEAN : args' = [backup |-> b, dry_run |-> d]
  /\ pc' = "backup"
  /\ orig' = file
  /\ wrote' = "no"
  /\ bk' = "none"
  /\ ret' = "unset"
  /\ success' = "unset"
  /\ runs' = runs + 1
  /\ UNCHANGED <<file, backup, prev>>
  /\ UNCHANGED imgVars

\* main without --backup
NoBackup ==
  /\ pc = "backup"
  /\ ~BackupRequested(args)
  /\ pc' = "dispatch"
  /\ UNCHANGED <<file, backup, args, ret, success, orig, wrote, bk, runs, prev>>
  /\ UNCHANGED imgVars

\* main with --backup: shutil.copy2 succeeds
BackupOk ==
  /\ pc = "backup"
  /\ BackupRequested(args)
  /\ file.kind # "absent"
  /\ backup' = file
  /\ bk' = "ok"
  /\ pc' = "dispatch"
  /\ UNCHANGED <<file, args, ret, success, orig, wrote, runs, prev>>
  /\ UNCHANGED imgVars

\* main with --backup: shutil.copy2 raises; return 1
BackupFail ==
  /\ pc = "backup"
  /\ BackupRequested(args)
  /\ backup' \in (IF file.kind = "absent" THEN {backup} ELSE {backup, EmptyFile})
  /\ bk' = "failed"
  /\ ret' = "1"
  /\ pc' = "done"
  /\ UNCHANGED <<file, args, success, orig, wrote, runs, prev>>
  /\ UNCHANGED imgVars

\* main, dry-run branch
DryRun ==
  /\ pc = "dispatch"
  /\ UseDryRun(args)
  /\ ret' = DryRunReturn(file)
  /\ pc' = "done"
  /\ UNCHANGED <<file, backup, args, success, orig, wrote, bk, runs, prev>>
  /\ UNCHANGED imgVars

\* main, else branch: sort_yaml_items(file_path) and its return value
SortFile ==
  /\ pc = "dispatch"
  /\ ~UseDryRun(args)
  /\ IF Validate(file) # "ok"
       THEN /\ success' = "False"
            /\ UNCHANGED <<file, wrote>>
       ELSE LET sorted_items == sorted(file.items, sort_keys(file.items))
            IN \E w \in {"ok", "open fails", "dump fails"} :
                 CASE w = "open fails" ->
                        /\ success' = "False"
                        /\ wrote' = "open failed"
                        /\ UNCHANGED file
                   [] w = "dump fails" ->
                        /\ file' = EmptyFile
                        /\ wrote' = "dump failed"
                        /\ success' = "False"
                   [] OTHER ->
                        /\ file' = Doc("list", sorted_items)
                        /\ wrote' = "yes"
                        /\ success' = IF SummaryPrints(sorted_items)
                                        THEN "True" ELSE "False"
  /\ ret' = IF success' = "True" THEN "0" ELSE "1"
  /\ pc' = "done"
  /\ UNCHANGED <<backup, args, orig, bk, runs, prev>>
  /\ UNCHANGED imgVars

\* the process has ended; the command may be invoked again
Exit ==
  /\ pc = "done"
  /\ runs < MaxRuns
  /\ pc' = "start"
  /\ prev' = [ok |-> success = "True" \/ (prev.ok /\ file = prev.doc),
              doc |-> file,
              reordered |-> IF success = "True" THEN file # orig
                            ELSE prev.reordered /\ file = prev.doc]
  /\ UNCHANGED <<file, backup, args, ret, success, orig, wrote, bk, runs>>
  /\ UNCHANGED imgVars

Next ==
  \/ ParseArgs
  \/ NoBackup
  \/ BackupOk
  \/ BackupFail
  \/ DryRun
  \/ SortFile
  \/ Exit

Spec == Init /\ [][Next]_vars

-----------------------------------------------------------------------------
(* download_images.py and scripts/download_images.py: ImageDownloader.run  *)

ImgInit ==
  /\ SortIdle
  /\ variant \in {"scripts", "legacy"}
  /\ dataFiles \in DataDirs
  /\ images \in SUBSET Filenames
  /\ phase = "init"
  /\ fi = 0
  /\ ii = 0
  /\ downloaded_count = 0
  /\ skipped_count = 0
  /\ total_downloaded = 0
  /\ total_skipped = 0
  /\ summary = [printed |-> FALSE, downloaded |-> 0, skipped |-> 0]
  /\ last = NoItemYet
  /\ tally = ZeroTally

CurFile == dataFiles[fi]

CurData == Load(variant, CurFile)

\* run: glob the data directory; return when it holds no YAML file
Start ==
  /\ phase = "init"
  /\ phase' = IF dataFiles = <<>> THEN "nofiles"
              ELSE IF variant = "scripts" THEN "scan" ELSE "download"
  /\ fi' = 1
  /\ UNCHANGED <<variant, dataFiles, images, ii, downloaded_count, skipped_count,
                 total_downloaded, total_skipped, summary, last, tally>>
  /\ UNCHANGED sortVars

\* scripts run, first loop: find_missing_images(yaml_file); item['name']
\* raises KeyError for an item without a name
FindMissing ==
  /\ phase = "scan"
  /\ fi <= Len(dataFiles)
  /\ IF ~MissingKey(CurData) /\ \E i \in 1..Len(CurData.items) : ~CurData.items[i].named
       THEN phase' = "crashed" /\ fi' = fi
       ELSE /\ fi' = IF fi = Len(dataFiles) THEN 1 ELSE fi + 1
            /\ phase' = IF fi = Len(dataFiles) THEN "download" ELSE "scan"
  /\ UNCHANGED <<variant, dataFiles, images, ii, downloaded_count, skipped_count,
                 total_downloaded, total_skipped, summary, last, tally>>
  /\ UNCHANGED sortVars

\* process_yaml_file up to its loop: load the file and check the two keys
OpenFile ==
  /\ phase = "download"
  /\ fi <= Len(dataFiles)
  /\ IF CurData.isNone
       THEN /\ phase' = "crashed"
            /\ UNCHANGED <<fi, ii, downloaded_count, skipped_count>>
       ELSE IF MissingKey(CurData)
         THEN /\ fi' = fi + 1
              /\ UNCHANGED <<phase, ii, downloaded_count, skipped_count>>
         ELSE /\ phase' = "infile"
              /\ ii' = 1
              /\ downloaded_count' = 0
              /\ skipped_count' = 0
              /\ fi' = fi
  /\ UNCHANGED <<variant, dataFiles, images, total_downloaded, total_skipped,
                 summary, last, tally>>
  /\ UNCHANGED sortVars

CurItem == CurData.items[ii]

CurFilename == sanitize_filename(CurFile.dimension, CurItem.name)

\* loop body of process_yaml_file: item['name'] of an item without a name
ItemKeyError ==
  /\ phase = "infile"
  /\ ii <= Len(CurData.items)
  /\ ~CurItem.named
  /\ phase' = "crashed"
  /\ UNCHANGED <<variant, dataFiles, images, fi, ii, downloaded_count, skipped_count,
                 total_downloaded, total_skipped, summary, last, tally>>
  /\ UNCHANGED sortVars

\* loop body of process_yaml_file: the image exists
SkipExisting ==
  /\ phase = "infile"
  /\ ii <= Len(CurData.items)
  /\ CurItem.named
  /\ CurFilename \in images
  /\ skipped_count' = skipped_count + 1
  /\ ii' = ii + 1
  /\ last' = [NoItemYet EXCEPT !.existed = TRUE, !.item = ii, !.filename = CurFilename]
  /\ tally' = [tally EXCEPT !.skips = @ + 1]
  /\ UNCHANGED <<variant, dataFiles, images, phase, fi, downloaded_count,
                 total_downloaded, total_skipped, summary>>
  /\ UNCHANGED sortVars

\* loop body of process_yaml_file: the image is absent
FetchItem ==
  /\ phase = "infile"
  /\ ii <= Len(CurData.items)
  /\ CurItem.named
  /\ CurFilename \notin images
  /\ \E wikiRes \in (IF HasWikipediaSource(CurItem) THEN {None, WikiThumb} ELSE {None}),
        unsplashRes \in (IF variant = "scripts" THEN {None, UnsplashSmall} ELSE {None}),
        outcome \in DownloadOutcomes :
       LET r == resolve(variant, CurItem, CurFilename, wikiRes, unsplashRes)
           called == r.url # None
           got == called /\ outcome = "ok"
       IN /\ last' = [existed |-> FALSE, item |-> ii, filename |-> CurFilename,
                      calls |-> IF called THEN r.calls \o <<"download">> ELSE r.calls,
                      url |-> r.url, wikiRes |-> wikiRes, unsplashRes |-> unsplashRes,
                      outcome |-> IF called THEN outcome ELSE "none"]
          /\ images' = IF called /\ FileAfterDownload(variant, outcome)
                         THEN images \cup {CurFilename} ELSE images
          /\ downloaded_count' = IF got THEN downloaded_count + 1 ELSE downloaded_count
          /\ tally' = [tally EXCEPT
                         !.downloads = IF got THEN @ + 1 ELSE @,
                         !.failed = IF called /\ ~got THEN @ + 1 ELSE @,
                         !.noimage = IF ~called THEN @ + 1 ELSE @]
  /\ ii' = ii + 1
  /\ UNCHANGED <<variant, dataFiles, phase, fi, skipped_count,
                 total_downloaded, total_skipped, summary>>
  /\ UNCHANGED sortVars

\* end of process_yaml_file: the file's summary line and the return to run,
\* which adds the returned counts to its totals in scripts/download_images.py
\* and ignores the call's result in download_images.py
CloseFile ==
  /\ phase = "infile"
  /\ ii > Len(CurData.items)
  /\ tally' = [tally EXCEPT !.fileDownloaded = @ + downloaded_count,
                            !.fileSkipped = @ + skipped_count]
  /\ total_downloaded' = IF variant = "scripts"
                           THEN total_downloaded + downloaded_count ELSE total_downloaded
  /\ total_skipped' = IF variant = "scripts"
                        THEN total_skipped + skipped_count ELSE total_skipped
  /\ fi' = fi + 1
  /\ phase' = "download"
  /\ UNCHANGED <<variant, dataFiles, images, ii, downloaded_count, skipped_count,
                 summary, last>>
  /\ UNCHANGED sortVars

\* run: the final summary
Finish ==
  /\ phase = "download"
  /\ fi > Len(dataFiles)
  /\ summary' = [printed |-> TRUE, downloaded |-> total_downloaded,
                 skipped |-> total_skipped]
  /\ phase' = "done"
  /\ UNCHANGED <<variant, dataFiles, images, fi, ii, downloaded_count, skipped_count,
                 total_downloaded, total_skipped, last, tally>>
  /\ UNCHANGED sortVars

ImgNext ==
  \/ Start
  \/ FindMissing
  \/ OpenFile
  \/ ItemKeyError
  \/ SkipExisting
  \/ FetchItem
  \/ CloseFile
  \/ Finish

ImgSpec == ImgInit /\ [][ImgNext]_vars

-----------------------------------------------------------------------------
(* Properties of the sorter                                                *)

\* the sort key the specification gives an item
ParsedKey(item) ==
  IF item.kind = "dict" /\ item.value # NoValue THEN float(item.value) ELSE FloatOf(0)

PositionOf(items, it) == CHOOSE i \in 1..Len(items) : items[i] = it

IsPermutation(out, in) ==
  /\ Len(out) = Len(in)
  /\ \A i \in 1..Len(in) : \E j \in 1..Len(out) : out[j] = in[i]
  /\ \A i, j \in 1..Len(out) : i # j => out[i] # out[j]

\* no item comes after an item with a greater key
NonDecreasing(out) ==
  \A i, j \in 1..Len(out) : i < j => ~ISLT(ParsedKey(out[j]), ParsedKey(out[i]))

EqualKeys(a, b) == ~a.nan /\ ~b.nan /\ a.num = b.num

StableWrt(out, in) ==
  \A i, j \in 1..Len(out) :
    (i < j /\ EqualKeys(ParsedKey(out[i]), ParsedKey(out[j])))
      => PositionOf(in, out[i]) < PositionOf(in, out[j])

NoNaN(items) == \A i \in 1..Len(items) : ~ParsedKey(items[i]).nan

\* sort_yaml_items has written the items of a valid document
SortWritten == pc = "done" /\ ~args.dry_run /\ wrote = "yes" /\ orig.kind = "list"

\* C1 as stated: for every valid document the items written are a
\* permutation of the input, non-decreasing by parsed value, equal keys in
\* their original order.
C1_SortedStablePermutation ==
  SortWritten =>
    /\ file.kind = "list"
    /\ IsPermutation(file.items, orig.items)
    /\ NonDecreasing(file.items)
    /\ StableWrt(file.items, orig.items)

\* C1 amended: the items written are always a permutation of the input;
\* when no value parses to NaN they are non-decreasing by parsed value and
\* items with equal keys keep their original relative order.
C1_SortedStablePermutationNoNaN ==
  SortWritten =>
    /\ file.kind = "list"
    /\ IsPermutation(file.items, orig.items)
    /\ NoNaN(orig.items) =>
         /\ NonDecreasing(file.items)
         /\ StableWrt(file.items, orig.items)

C1_Witness ==
  /\ SortWritten
  /\ NoNaN(orig.items)
  /\ Len(orig.items) = 3
  /\ file.items # orig.items
  /\ \E i, j \in 1..3 : i # j /\ EqualKeys(ParsedKey(orig.items[i]), ParsedKey(orig.items[j]))

\* C2: sorting the file a successful sort produced leaves the item order
\* as the first sort wrote it.
C2_Idempotent ==
  (pc = "done" /\ ~args.dry_run /\ success = "True" /\ prev.ok /\ orig = prev.doc)
    => file = prev.doc

C2_Witness ==
  /\ pc = "done" /\ ~args.dry_run /\ success = "True" /\ prev.ok /\ orig = prev.doc
  /\ prev.reordered
  /\ Len(file.items) >= 2
  /\ \E i, j \in 1..Len(file.items) :
       i # j /\ EqualKeys(ParsedKey(file.items[i]), ParsedKey(file.items[j]))

\* the documents C3 names
NotAMapping(doc) == doc.kind = "notmap"

MissingItems(doc) == doc.kind = "noitems"

ItemsNotASequence(doc) == doc.kind \in {"null_items", "emptymap_items", "str_items"}

UnparseableValue(doc) ==
  doc.kind = "list" /\ \E i \in 1..Len(doc.items) : ~ParsedKey(doc.items[i]).ok

\* C3: on a document that is not a mapping, lacks items, has items that
\* are not a sequence, or holds an unparseable value, sort_yaml_items
\* reports failure and the file is as it was before the invocation.
C3_InvalidLeavesFile ==
  (/\ pc = "done" /\ ~args.dry_run /\ bk # "failed"
   /\ \/ NotAMapping(orig) \/ MissingItems(orig)
      \/ ItemsNotASequence(orig) \/ UnparseableValue(orig))
    => success = "False" /\ file = orig

C3_Witness ==
  /\ pc = "done" /\ ~args.dry_run /\ bk # "failed"
  /\ UnparseableValue(orig)
  /\ Len(orig.items) >= 2
  /\ success = "False" /\ file = orig

HasScalarItem(doc) ==
  doc.kind = "list" /\ \E i \in 1..Len(doc.items) : doc.items[i].kind = "scalar"

\* C4: for every combination of the flags the command exits 1 on a
\* validation error (not a mapping, no items, items not a sequence) or a
\* processing error (unparseable value, backup or write failure) and 0
\* when it succeeds.
C4_ExitStatus ==
  pc = "done" =>
    /\ (\/ NotAMapping(orig) \/ MissingItems(orig) \/ ItemsNotASequence(orig)
        \/ UnparseableValue(orig) \/ bk = "failed"
        \/ wrote \in {"open failed", "dump failed"})
         => ExitStatus(ret) = 1
    /\ (/\ orig.kind = "list" /\ ~UnparseableValue(orig) /\ ~HasScalarItem(orig)
        /\ bk # "failed" /\ wrote \notin {"open failed", "dump failed"})
         => ExitStatus(ret) = 0

\* C5: with --dry-run the dataset file keeps the content it had when the
\* command was invoked.
C5_DryRunNoWrite ==
  (pc # "start" /\ args.dry_run) => (file = orig /\ wrote = "no")

C5_Witness ==
  /\ pc = "done" /\ args.dry_run /\ args.backup /\ ret = "None"
  /\ file = orig
  /\ file.kind = "list"
  /\ sorted(file.items, sort_keys(file.items)) # file.items

\* C6: with --backup the copy at the .backup path is made before any write
\* to the dataset file and holds the pre-sort content, also with
\* --dry-run; when the copy fails the command exits non-zero and the
\* dataset file is not modified.
C6_BackupBeforeWrite ==
  (pc \in {"dispatch", "done"} /\ args.backup) =>
    /\ bk \in {"ok", "failed"}
    /\ bk = "ok" => backup = orig
    /\ wrote # "no" => bk = "ok"
    /\ bk = "failed" => (pc = "done" /\ ExitStatus(ret) # 0 /\ file = orig /\ wrote = "no")

C6_Witness ==
  /\ pc = "done" /\ args.backup /\ bk = "ok"
  /\ wrote = "yes" /\ file # orig
  /\ backup = orig

\* C12: whenever sort_yaml_items has rewritten the dataset file it returns
\* True and the command exits 0; an invocation that reports failure has
\* left the file as it was, also when items holds entries that are not
\* mappings.  Stated for the invocations whose write the filesystem did
\* not cut short.
C12_RewrittenImpliesSuccess ==
  (pc = "done" /\ ~args.dry_run /\ bk # "failed" /\ wrote # "dump failed") =>
    /\ wrote = "yes" => (success = "True" /\ ExitStatus(ret) = 0)
    /\ success = "False" => file = orig

-----------------------------------------------------------------------------
(* Properties of the image pipeline                                        *)

StrategyRank(c) ==
  CASE c = "wikipedia"   -> 1
    [] c = "unsplash"    -> 2
    [] c = "placeholder" -> 3
    [] OTHER             -> 4

Called(c) == \E i \in 1..Len(last.calls) : last.calls[i] = c

WikiYield == IF Called("wikipedia") THEN last.wikiRes ELSE None

UnsplashYield == IF Called("unsplash") THEN last.unsplashRes ELSE None

\* an item whose image was absent has been processed
Fetched == last.item # 0 /\ ~last.existed

\* C7: the strategies are called in the order Wikipedia, stock-photo
\* search, placeholder; the search only when Wikipedia did not apply or
\* yielded none, the placeholder only when both yielded none; the URL
\* given to the downloader is the result of the first strategy that
\* succeeded.
C7_ResolverShortCircuit ==
  Fetched =>
    /\ \A i, j \in 1..Len(last.calls) :
         i < j => StrategyRank(last.calls[i]) < StrategyRank(last.calls[j])
    /\ Called("unsplash") => WikiYield = None
    /\ Called("placeholder") => (WikiYield = None /\ UnsplashYield = None)
    /\ variant = "scripts" =>
         /\ WikiYield = None => Called("unsplash")
         /\ (WikiYield = None /\ UnsplashYield = None) => Called("placeholder")
         /\ Called("download")
    /\ Called("download") =>
         last.url = IF WikiYield # None THEN WikiYield
                    ELSE IF UnsplashYield # None THEN UnsplashYield
                    ELSE generate_placeholder_image(last.filename, <<>>)

C7_Witness ==
  /\ Fetched
  /\ variant = "scripts"
  /\ last.calls = <<"wikipedia", "unsplash", "download">>
  /\ last.wikiRes = None
  /\ last.url = UnsplashSmall

\* C8: an item whose image exists is counted as skipped without any
\* resolver or downloader call, and a run in which the image of every one
\* of the N items exists reports zero downloads, zero failures, N skips.
C8_ExistingImagesSkipped ==
  /\ last.existed => last.calls = <<>>
  /\ (phase = "done" /\ tally.skips = TotalItems(dataFiles)) =>
       /\ summary.printed
       /\ summary.downloaded = 0
       /\ summary.skipped = TotalItems(dataFiles)
       /\ tally.failed = 0 /\ tally.noimage = 0

\* C9: no per-item failure and no malformed or incomplete dataset file
\* ends the run before its final summary.
C9_RunNeverAborts == phase # "crashed"

\* C10: the totals of the final summary are the sums of the per-file
\* counts: the successful downloads and the items whose image existed.
C10_TotalsAreSums ==
  phase = "done" =>
    /\ summary.downloaded = tally.fileDownloaded
    /\ summary.skipped = tally.fileSkipped
    /\ summary.downloaded = tally.downloads
    /\ summary.skipped = tally.skips

\* C11: for every item whose image file is absent the resolver yields a
\* URL and the downloader is invoked; the 'no image found' line is never
\* printed.
C11_AlwaysSomeImage ==
  /\ Fetched => (last.url # None /\ Called("download"))
  /\ tally.noimage = 0

\* C13: a download that returns failure (network error, timeout while
\* reading the body, non-success status) leaves no file at the target
\* image path, so the existence check of a later run does not skip the
\* item.
C13_FailedDownloadLeavesNoFile ==
  (Fetched /\ Called("download") /\ last.outcome # "ok")
    => last.filename \notin images

====
